---- MODULE Spec2Model ----
(***************************************************************************)
(* State machine of the BatteryCore dashboard component (src/App.tsx) and  *)
(* its insight client (services/geminiService).  One action stands for one *)
(* event-loop turn: the handler, the re-render it causes and the effects   *)
(* whose dependencies changed in that render.                              *)
(***************************************************************************)
EXTENDS Integers, Sequences, FiniteSets, TLC

\* ------------------------------------------------------------------------
\* Program constants
\* ------------------------------------------------------------------------
HISTORY_CAPACITY == 20
HISTORY_INTERVAL_MS == 5000
LEVEL_THRESHOLD == 5
INITIAL_LEVEL == 100
INITIAL_TEMPERATURE == 324      \* 32.4 degrees, in tenths
INITIAL_VOLTAGE == 380          \* 3.8 V, in hundredths

\* ------------------------------------------------------------------------
\* Bounds of the exploration
\* ------------------------------------------------------------------------
TimeStep == 2500          \* granularity of the passage of time, in ms
MaxUpdates == 2           \* device changes explored in Spec
MaxTicks == 1             \* history appends explored in Spec
MaxClicks == 1            \* Deep Analyze clicks explored in Spec
HistTicks == 25           \* history appends explored in SpecHistory
MaxWakeRequests == 2      \* wake lock requests explored in SpecLifecycle

DrawScale == 1000         \* Math.random() is taken in steps of 1/DrawScale
DrawStride == 125         \* SpecSimulated draws every DrawStride-th step ...
DrawTail == 10            \* ... and each of the last DrawTail steps below 1

\* battery.level readings in units of 0.005 (200 is 1.0, 191 is 0.955)
RawLevels == {200, 191, 190}

\* every reading from 0.0 to 1.0
AllRawLevels == 0..200

\* the values of Math.random() explored by SpecSimulated, times DrawScale
DrawSamples ==
    {d \in 0..(DrawScale - 1) : d % DrawStride = 0 \/ d >= DrawScale - DrawTail}

\* what the generative service may answer to one request
Responses == {"network_error", "service_error", "empty", "unparsable",
              "json_null", "schema_mismatch", "valid"}

VARIABLES
    session,            \* "init" before the mount effects ran, then "active"
    hasBattery,         \* 'getBattery' in navigator
    battery,            \* the platform's BatteryManager: [level, charging]
    stats,              \* useState<BatteryStats>: [level, charging,
                        \* temperature (tenths), voltage (hundredths)]
    insight,            \* useState<BatteryInsight | null>: << >> is null
    loadingInsight,     \* useState(false)
    usageHistory,       \* useState<UsageData[]>
    lastFetchedLevel,   \* useRef<number | null>: << >> is null
    isOnline,           \* useState(navigator.onLine)
    inflight,           \* calls of getBatteryInsights that have not returned
    fetchesStarted,     \* number of calls of getBatteryInsights so far
    pendingGetBattery,  \* getBattery() promises not yet resolved
    listenerSets,       \* sets of four change listeners on the battery
    timerAge,           \* ms since historyInterval was created or last fired
    capturedLevel,      \* stats.level in the closure of historyInterval
    nowMs,              \* wall clock, ms since the mount
    allSamples,         \* every sample ever appended, in append order
    nUpdates,           \* device changes so far
    nClicks,            \* Deep Analyze clicks so far
    cap,                \* caps on nUpdates, Len(allSamples), nClicks and
                        \* wakeRequests, and the sets the environment's
                        \* inputs are drawn from
    hasWakeLock,        \* 'wakeLock' in navigator
    visible,            \* document.visibilityState === 'visible'
    wakeLock,           \* the wake lock effect's variable: << >> is null,
                        \* <<n>> the sentinel of request n
    heldLocks,          \* requests whose screen wake lock the platform holds
    pendingWake,        \* wakeLock.request('screen') promises not yet settled
    wakeRequests        \* number of calls of wakeLock.request so far

vars == <<session, hasBattery, battery, stats, insight, loadingInsight,
          usageHistory, lastFetchedLevel, isOnline, inflight, fetchesStarted,
          pendingGetBattery, listenerSets, timerAge, capturedLevel, nowMs,
          allSamples, nUpdates, nClicks, cap, hasWakeLock, visible, wakeLock,
          heldLocks, pendingWake, wakeRequests>>

wakeVars ==
    <<hasWakeLock, visible, wakeLock, heldLocks, pendingWake, wakeRequests>>

fetchVars == <<inflight, fetchesStarted, loadingInsight>>
timerVars == <<timerAge, capturedLevel>>
historyVars == <<usageHistory, allSamples, nowMs>>

\* ------------------------------------------------------------------------
\* Pure helpers
\* ------------------------------------------------------------------------
Abs(x) == IF x < 0 THEN -x ELSE x

Min(a, b) == IF a < b THEN a ELSE b

\* Math.floor(battery.level * 100) + 1: rounding up by adding one
RoundLevelFloorPlusOne(raw) == raw \div 2 + 1

\* Math.round(battery.level * 100) for a reading in units of 0.005
RoundLevel(raw) == (raw + 1) \div 2

\* toLocaleTimeString([], {hour: '2-digit', minute: '2-digit'})
FormatTime(ms) == [hour |-> (ms \div 3600000) % 24, minute |-> (ms \div 60000) % 60]

\* n.toFixed(f) for n = num / den scaled by 10^f: the nearest integer, the
\* larger one of two
RoundHalfUp(num, den) == (2 * num + den) \div (2 * den)

\* parseFloat((30 + Math.random() * 9).toFixed(1)): a wider simulated range
SimTemperatureWide(d) == RoundHalfUp(10 * (30 * DrawScale + 9 * d), DrawScale)

\* parseFloat((30 + Math.random() * 8).toFixed(1)) in tenths, for
\* Math.random() = d / DrawScale
SimTemperature(d) == RoundHalfUp(10 * (30 * DrawScale + 8 * d), DrawScale)

\* parseFloat((3.6 + Math.random() * 0.6).toFixed(2)) in hundredths, for
\* Math.random() = d / DrawScale
SimVoltage(d) == RoundHalfUp(360 * DrawScale + 60 * d, DrawScale)

\* updateBatteryInfo: the snapshot built from the battery object and two
\* draws of Math.random()
UpdateBatteryInfo(prev, b, dT, dV) ==
    [prev EXCEPT !.level = RoundLevel(b.level),
                 !.charging = b.charging,
                 !.temperature = SimTemperature(dT),
                 !.voltage = SimVoltage(dV)]

\* the readings the battery object can show under the caps c
Readings(c) == [level : c.raws, charging : c.charging]

\* caps u, t, k with the default input sets: the readings of RawLevels, a
\* device that is not charging, Math.random() returning 0, a visible page on
\* a platform with the wake lock capability and no visibility-regain event
Caps(u, t, k) ==
    [updates |-> u, ticks |-> t, clicks |-> k,
     raws |-> RawLevels, charging |-> {FALSE}, draws |-> {0},
     wakes |-> 1, wakeCapability |-> {TRUE}, visibility |-> {TRUE}]

\* the debounce condition with a strict comparison
ShouldRequestStrict(online, last, level) ==
    online /\ (last = << >> \/ Abs(last[1] - level) > LEVEL_THRESHOLD)

\* the condition of the debounce effect
ShouldRequest(online, last, level) ==
    online /\ (last = << >> \/ Abs(last[1] - level) >= LEVEL_THRESHOLD)

\* disabled={loadingInsight || !isOnline}
DeepAnalyzeEnabled(loading, online) == ~(loading \/ ~online)

\* getBatteryInsights: << >> is null, otherwise the parsed value
GetBatteryInsights(req, resp) ==
    CASE resp \in {"network_error", "service_error"} -> << >>
      [] resp = "empty" -> << >>
      [] resp = "unparsable" -> << >>
      [] resp = "json_null" -> << >>
      [] resp = "schema_mismatch" ->
            <<[req |-> req.id, stats |-> req.stats, wellFormed |-> FALSE]>>
      [] OTHER ->
            <<[req |-> req.id, stats |-> req.stats, wellFormed |-> TRUE]>>

\* the updater without the eviction
AppendSampleNoEvict(prev, sample) == Append(prev, sample)

\* the updater evicting the newest sample: newData.slice(0, 20)
AppendSampleKeepOldest(prev, sample) ==
    LET newData == Append(prev, sample)
    IN  IF Len(newData) > HISTORY_CAPACITY
        THEN SubSeq(newData, 1, HISTORY_CAPACITY)
        ELSE newData

\* the setUsageHistory updater
AppendSample(prev, sample) ==
    LET newData == Append(prev, sample)
    IN  IF Len(newData) > HISTORY_CAPACITY THEN Tail(newData) ELSE newData

\* ------------------------------------------------------------------------
\* Pieces of handlers
\* ------------------------------------------------------------------------
\* fetchInsights after its connectivity check
StartFetch(st, trig) ==
    /\ loadingInsight' = TRUE
    /\ fetchesStarted' = fetchesStarted + 1
    /\ inflight' = inflight \cup
          {[id |-> fetchesStarted + 1, stats |-> st, trigger |-> trig]}

FetchInsights(st, online, trig) ==
    IF ~online
    THEN UNCHANGED fetchVars
    ELSE StartFetch(st, trig)

\* the debounce effect calling the service without consulting isOnline
DebounceEffectUngated(st, online) ==
    IF lastFetchedLevel = << >>
          \/ Abs(lastFetchedLevel[1] - st.level) >= LEVEL_THRESHOLD
    THEN /\ StartFetch(st, "auto")
         /\ lastFetchedLevel' = <<st.level>>
    ELSE UNCHANGED <<fetchVars, lastFetchedLevel>>

\* the debounce effect leaving lastFetchedLevel.current for later
DebounceEffectLateRecord(st, online) ==
    IF ShouldRequest(online, lastFetchedLevel, st.level)
    THEN /\ FetchInsights(st, online, "auto")
         /\ UNCHANGED lastFetchedLevel
    ELSE UNCHANGED <<fetchVars, lastFetchedLevel>>

\* the debounce effect testing the levels alone and leaving the connectivity
\* to fetchInsights: a crossing is recorded whether or not a request starts
DebounceEffectRecordsOffline(st, online) ==
    IF lastFetchedLevel = << >>
          \/ Abs(lastFetchedLevel[1] - st.level) >= LEVEL_THRESHOLD
    THEN /\ FetchInsights(st, online, "auto")
         /\ lastFetchedLevel' = <<st.level>>
    ELSE UNCHANGED <<fetchVars, lastFetchedLevel>>

\* the debounce effect, run in a render whose stats.level or isOnline changed
DebounceEffect(st, online) ==
    IF ShouldRequest(online, lastFetchedLevel, st.level)
    THEN /\ FetchInsights(st, online, "auto")
         /\ lastFetchedLevel' = <<st.level>>
    ELSE UNCHANGED <<fetchVars, lastFetchedLevel>>

\* the battery effect whose interval callback keeps the level of the first
\* render
BatteryEffectStaleClosure(level, resolved) ==
    /\ pendingGetBattery' =
          pendingGetBattery - resolved + (IF hasBattery THEN 1 ELSE 0)
    /\ timerAge' = 0
    /\ UNCHANGED capturedLevel

\* the battery effect without the test of 'getBattery' in navigator
BatteryEffectNoCapabilityTest(level, resolved) ==
    /\ pendingGetBattery' = pendingGetBattery - resolved + 1
    /\ timerAge' = 0
    /\ capturedLevel' = level

\* the battery effect: cleanup of the previous run, then the new run.
\* resolved is the number of getBattery() promises consumed by this turn.
BatteryEffect(level, resolved) ==
    /\ pendingGetBattery' =
          pendingGetBattery - resolved + (IF hasBattery THEN 1 ELSE 0)
    /\ timerAge' = 0
    /\ capturedLevel' = level

\* requestWakeLock up to its await: the request is recorded with the
\* visibility it was made in
RequestWakeLock(vis) ==
    IF hasWakeLock
    THEN /\ wakeRequests' = wakeRequests + 1
         /\ pendingWake' = pendingWake \cup
               {[id |-> wakeRequests + 1, requestedVisible |-> vis]}
    ELSE UNCHANGED <<wakeRequests, pendingWake>>

\* setStats followed by the render and the effects depending on stats.level
SetStats(newStats, resolved) ==
    /\ stats' = newStats
    /\ IF newStats.level # stats.level
       THEN /\ BatteryEffect(newStats.level, resolved)
            /\ DebounceEffect(newStats, isOnline)
       ELSE /\ pendingGetBattery' = pendingGetBattery - resolved
            /\ UNCHANGED <<timerVars, fetchVars, lastFetchedLevel>>

\* ------------------------------------------------------------------------
\* Initial states
\* ------------------------------------------------------------------------
InitWith(c) ==
    /\ session = "init"
    /\ hasBattery \in BOOLEAN
    /\ battery \in Readings(c)
    /\ stats = [level |-> INITIAL_LEVEL, charging |-> FALSE,
                temperature |-> INITIAL_TEMPERATURE,
                voltage |-> INITIAL_VOLTAGE]
    /\ insight = << >>
    /\ loadingInsight = FALSE
    /\ usageHistory = << >>
    /\ lastFetchedLevel = << >>
    /\ isOnline \in BOOLEAN
    /\ inflight = {}
    /\ fetchesStarted = 0
    /\ pendingGetBattery = 0
    /\ listenerSets = 0
    /\ timerAge = 0
    /\ capturedLevel = INITIAL_LEVEL
    /\ nowMs = 0
    /\ allSamples = << >>
    /\ nUpdates = 0
    /\ nClicks = 0
    /\ cap = c
    /\ hasWakeLock \in c.wakeCapability
    /\ visible \in c.visibility
    /\ wakeLock = << >>
    /\ heldLocks = {}
    /\ pendingWake = {}
    /\ wakeRequests = 0

Init == InitWith(Caps(MaxUpdates, MaxTicks, MaxClicks))

InitHistory ==
    InitWith(Caps(0, HistTicks, 0))

\* ------------------------------------------------------------------------
\* Actions
\* ------------------------------------------------------------------------
\* the effects of the first render
Mount ==
    /\ session = "init"
    /\ session' = "active"
    /\ RequestWakeLock(visible)
    /\ BatteryEffect(stats.level, 0)
    /\ DebounceEffect(stats, isOnline)
    /\ UNCHANGED <<hasBattery, battery, stats, insight, historyVars, isOnline,
                   listenerSets, nUpdates, nClicks, cap, hasWakeLock, visible,
                   wakeLock, heldLocks>>

\* getBattery().then(...)
GetBatteryResolve ==
    /\ session = "active"
    /\ pendingGetBattery > 0
    /\ \E dT, dV \in cap.draws :
          SetStats(UpdateBatteryInfo(stats, battery, dT, dV), 1)
    /\ listenerSets' = listenerSets + 1
    /\ UNCHANGED <<session, hasBattery, battery, insight, historyVars, isOnline,
                   nUpdates, nClicks, cap, wakeVars>>

\* the device dispatches a change event (levelchange, chargingchange,
\* chargingtimechange or dischargingtimechange); b is what it reads then
DeviceChange(b) ==
    /\ session = "active"
    /\ hasBattery
    /\ nUpdates < cap.updates
    /\ battery' = b
    /\ nUpdates' = nUpdates + 1
    /\ IF listenerSets > 0
       THEN \E dT, dV \in cap.draws :
               SetStats(UpdateBatteryInfo(stats, b, dT, dV), 0)
       ELSE UNCHANGED <<stats, pendingGetBattery, timerVars, fetchVars,
                        lastFetchedLevel>>
    /\ UNCHANGED <<session, hasBattery, insight, historyVars, isOnline,
                   listenerSets, nClicks, cap, wakeVars>>

\* time passes, never beyond the moment the interval is due; the clock is
\* followed until the last explored append
TimeAdvance ==
    /\ session = "active"
    /\ timerAge < HISTORY_INTERVAL_MS
    /\ Len(allSamples) < cap.ticks
    /\ LET d == Min(TimeStep, HISTORY_INTERVAL_MS - timerAge)
       IN  /\ timerAge' = timerAge + d
           /\ nowMs' = nowMs + d
    /\ UNCHANGED <<session, hasBattery, battery, stats, insight, fetchVars,
                   usageHistory, allSamples, lastFetchedLevel, isOnline,
                   pendingGetBattery, listenerSets, capturedLevel, nUpdates,
                   nClicks, cap, wakeVars>>

\* the callback of historyInterval
HistoryTick ==
    /\ session = "active"
    /\ timerAge = HISTORY_INTERVAL_MS
    /\ Len(allSamples) < cap.ticks
    /\ LET sample == [time |-> FormatTime(nowMs), level |-> capturedLevel]
       IN  /\ usageHistory' = AppendSample(usageHistory, sample)
           /\ allSamples' = Append(allSamples, sample)
    /\ timerAge' = 0
    /\ UNCHANGED <<session, hasBattery, battery, stats, insight, fetchVars,
                   lastFetchedLevel, isOnline, pendingGetBattery, listenerSets,
                   capturedLevel, nowMs, nUpdates, nClicks, cap, wakeVars>>

\* window 'online' event
HandleOnline ==
    /\ session = "active"
    /\ ~isOnline
    /\ isOnline' = TRUE
    /\ DebounceEffect(stats, TRUE)
    /\ UNCHANGED <<session, hasBattery, battery, stats, insight, historyVars,
                   pendingGetBattery, listenerSets, timerVars, nUpdates,
                   nClicks, cap, wakeVars>>

\* window 'offline' event
HandleOffline ==
    /\ session = "active"
    /\ isOnline
    /\ isOnline' = FALSE
    /\ DebounceEffect(stats, FALSE)
    /\ UNCHANGED <<session, hasBattery, battery, stats, insight, historyVars,
                   pendingGetBattery, listenerSets, timerVars, nUpdates,
                   nClicks, cap, wakeVars>>

\* a click whose request is recorded as the last-requested level
DeepAnalyzeClickRecords ==
    /\ session = "active"
    /\ DeepAnalyzeEnabled(loadingInsight, isOnline)
    /\ nClicks < cap.clicks
    /\ nClicks' = nClicks + 1
    /\ FetchInsights(stats, isOnline, "manual")
    /\ lastFetchedLevel' = <<stats.level>>
    /\ UNCHANGED <<session, hasBattery, battery, stats, insight, historyVars,
                   isOnline, pendingGetBattery, listenerSets, timerVars,
                   nUpdates, cap, wakeVars>>

\* a click on the Deep Analyze button
DeepAnalyzeClick ==
    /\ session = "active"
    /\ DeepAnalyzeEnabled(loadingInsight, isOnline)
    /\ nClicks < cap.clicks
    /\ nClicks' = nClicks + 1
    /\ FetchInsights(stats, isOnline, "manual")
    /\ UNCHANGED <<session, hasBattery, battery, stats, insight, historyVars,
                   lastFetchedLevel, isOnline, pendingGetBattery, listenerSets,
                   timerVars, nUpdates, cap, wakeVars>>

\* the continuation calling fetchInsights again when no insight came back
FetchCompleteRetry(req, resp) ==
    /\ req \in inflight
    /\ LET data == GetBatteryInsights(req, resp)
       IN  /\ insight' = IF data # << >> THEN data ELSE insight
           /\ IF data = << >>
              THEN /\ loadingInsight' = TRUE
                   /\ fetchesStarted' = fetchesStarted + 1
                   /\ inflight' = (inflight \ {req}) \cup
                         {[id |-> fetchesStarted + 1, stats |-> req.stats,
                           trigger |-> "auto"]}
              ELSE /\ loadingInsight' = FALSE
                   /\ inflight' = inflight \ {req}
                   /\ UNCHANGED fetchesStarted
    /\ UNCHANGED <<session, hasBattery, battery, stats, historyVars,
                   lastFetchedLevel, isOnline, pendingGetBattery,
                   listenerSets, timerVars, nUpdates, nClicks, cap, wakeVars>>

\* the continuation clearing the flag only beside setInsight(data)
FetchCompleteFlagOnSuccess(req, resp) ==
    /\ req \in inflight
    /\ LET data == GetBatteryInsights(req, resp)
       IN  /\ insight' = IF data # << >> THEN data ELSE insight
           /\ loadingInsight' = IF data # << >> THEN FALSE ELSE loadingInsight
    /\ inflight' = inflight \ {req}
    /\ UNCHANGED <<session, hasBattery, battery, stats, historyVars,
                   lastFetchedLevel, isOnline, fetchesStarted,
                   pendingGetBattery, listenerSets, timerVars, nUpdates,
                   nClicks, cap, wakeVars>>

\* the continuation calling setInsight(data) without testing data
FetchCompleteUnchecked(req, resp) ==
    /\ req \in inflight
    /\ insight' = GetBatteryInsights(req, resp)
    /\ loadingInsight' = FALSE
    /\ inflight' = inflight \ {req}
    /\ UNCHANGED <<session, hasBattery, battery, stats, historyVars,
                   lastFetchedLevel, isOnline, fetchesStarted,
                   pendingGetBattery, listenerSets, timerVars, nUpdates,
                   nClicks, cap, wakeVars>>

\* the continuation discarding a response whose level is no longer current
FetchCompleteDropStale(req, resp) ==
    /\ req \in inflight
    /\ LET data == GetBatteryInsights(req, resp)
       IN  insight' = IF data # << >> /\ req.stats.level = stats.level
                      THEN data
                      ELSE insight
    /\ loadingInsight' = FALSE
    /\ inflight' = inflight \ {req}
    /\ UNCHANGED <<session, hasBattery, battery, stats, historyVars,
                   lastFetchedLevel, isOnline, fetchesStarted,
                   pendingGetBattery, listenerSets, timerVars, nUpdates,
                   nClicks, cap, wakeVars>>

\* the continuation of fetchInsights after await getBatteryInsights(stats)
FetchComplete(req, resp) ==
    /\ session = "active"
    /\ req \in inflight
    /\ LET data == GetBatteryInsights(req, resp)
       IN  insight' = IF data # << >> THEN data ELSE insight
    /\ loadingInsight' = FALSE
    /\ inflight' = inflight \ {req}
    /\ UNCHANGED <<session, hasBattery, battery, stats, historyVars,
                   lastFetchedLevel, isOnline, fetchesStarted,
                   pendingGetBattery, listenerSets, timerVars, nUpdates,
                   nClicks, cap, wakeVars>>

\* a call of getBatteryInsights returns after the unmount: the state
\* setters of the unmounted component change nothing
FetchCompleteTornDown(req) ==
    /\ session = "torndown"
    /\ req \in inflight
    /\ inflight' = inflight \ {req}
    /\ UNCHANGED <<session, hasBattery, battery, stats, insight,
                   loadingInsight, historyVars, lastFetchedLevel, isOnline,
                   fetchesStarted, pendingGetBattery, listenerSets, timerVars,
                   nUpdates, nClicks, cap, wakeVars>>

\* the promise of wakeLock.request('screen') settles: it fulfils only for a
\* page that was visible at the request and still is, and it may reject for
\* any page; the continuation assigns the sentinel to wakeLock
WakeLockResolve(p, granted) ==
    /\ session # "init"
    /\ p \in pendingWake
    /\ granted => (visible /\ p.requestedVisible)
    /\ pendingWake' = pendingWake \ {p}
    /\ heldLocks' = IF granted THEN heldLocks \cup {p.id} ELSE heldLocks
    /\ wakeLock' = IF granted THEN <<p.id>> ELSE wakeLock
    /\ UNCHANGED <<session, hasBattery, battery, stats, insight, fetchVars,
                   historyVars, lastFetchedLevel, isOnline, pendingGetBattery,
                   listenerSets, timerVars, nUpdates, nClicks, cap,
                   hasWakeLock, visible, wakeRequests>>

\* the page is hidden: the platform releases its screen wake locks, and
\* handleVisibilityChange finds the state not 'visible'
VisibilityHidden ==
    /\ session # "init"
    /\ visible
    /\ visible' = FALSE
    /\ heldLocks' = {}
    /\ UNCHANGED <<session, hasBattery, battery, stats, insight, fetchVars,
                   historyVars, lastFetchedLevel, isOnline, pendingGetBattery,
                   listenerSets, timerVars, nUpdates, nClicks, cap,
                   hasWakeLock, wakeLock, pendingWake, wakeRequests>>

\* the page is visible again: handleVisibilityChange, while it is
\* registered, requests a wake lock
VisibilityVisible ==
    /\ session # "init"
    /\ ~visible
    /\ visible' = TRUE
    /\ IF session = "active"
       THEN /\ hasWakeLock => wakeRequests < cap.wakes
            /\ RequestWakeLock(TRUE)
       ELSE UNCHANGED <<wakeRequests, pendingWake>>
    /\ UNCHANGED <<session, hasBattery, battery, stats, insight, fetchVars,
                   historyVars, lastFetchedLevel, isOnline, pendingGetBattery,
                   listenerSets, timerVars, nUpdates, nClicks, cap,
                   hasWakeLock, wakeLock, heldLocks>>

\* the component unmounts: every effect's cleanup runs. The wake lock
\* cleanup releases the sentinel in wakeLock; the battery cleanup clears the
\* interval and passes updateBatteryInfo to removeEventListener, which is
\* none of the registered listeners
Unmount ==
    /\ session = "active"
    /\ session' = "torndown"
    /\ heldLocks' = IF wakeLock # << >> THEN heldLocks \ {wakeLock[1]}
                                        ELSE heldLocks
    /\ UNCHANGED <<hasBattery, battery, stats, insight, fetchVars,
                   historyVars, lastFetchedLevel, isOnline, pendingGetBattery,
                   listenerSets, timerVars, nUpdates, nClicks, cap,
                   hasWakeLock, visible, wakeLock, pendingWake, wakeRequests>>

\* getBattery().then(...) after the unmount: setStats changes nothing, the
\* four listeners are registered all the same
GetBatteryResolveTornDown ==
    /\ session = "torndown"
    /\ pendingGetBattery > 0
    /\ pendingGetBattery' = pendingGetBattery - 1
    /\ listenerSets' = listenerSets + 1
    /\ UNCHANGED <<session, hasBattery, battery, stats, insight, fetchVars,
                   historyVars, lastFetchedLevel, isOnline, timerVars,
                   nUpdates, nClicks, cap, wakeVars>>

\* the handlers of a mounted session, before the wake lock request of its
\* mount settles and while the visibility of the page does not change
NextMounted ==
    \/ Mount
    \/ GetBatteryResolve
    \/ \E b \in Readings(cap) : DeviceChange(b)
    \/ TimeAdvance
    \/ HistoryTick
    \/ HandleOnline
    \/ HandleOffline
    \/ DeepAnalyzeClick
    \/ \E req \in inflight, resp \in Responses : FetchComplete(req, resp)

Next ==
    \/ NextMounted
    \/ \E p \in pendingWake, granted \in BOOLEAN : WakeLockResolve(p, granted)
    \/ VisibilityHidden
    \/ VisibilityVisible
    \/ Unmount
    \/ GetBatteryResolveTornDown
    \/ \E req \in inflight : FetchCompleteTornDown(req)

Spec == Init /\ [][Next]_vars

\* the fetch orchestration alone: the handlers of Next that read or write the
\* stats, the connectivity flag, the debounce reference, the requests and the
\* insight.  TimeAdvance and HistoryTick read none of these but capturedLevel
\* and write none of them, so every behaviour of Spec projects onto one of
\* SpecFetch.
NextFetch ==
    \/ Mount
    \/ GetBatteryResolve
    \/ \E b \in Readings(cap) : DeviceChange(b)
    \/ HandleOnline
    \/ HandleOffline
    \/ DeepAnalyzeClick
    \/ \E req \in inflight, resp \in Responses : FetchComplete(req, resp)

SpecFetch == Init /\ [][NextFetch]_vars

\* the telemetry mirror over every reading from 0.0 to 1.0: the first reading
\* and one later change event
InitLevel == InitWith([Caps(1, 0, 0) EXCEPT !.raws = AllRawLevels])

NextLevel ==
    \/ Mount
    \/ GetBatteryResolve
    \/ \E b \in Readings(cap) : DeviceChange(b)

SpecLevel == InitLevel /\ [][NextLevel]_vars

\* every handler together, on platforms with and without the battery
\* capability, over a window of two history appends
InitDegraded == InitWith(Caps(1, 2, 1))

SpecDegraded == InitDegraded /\ [][NextMounted]_vars

\* the life cycle of the session: mount, telemetry, visibility changes, wake
\* lock requests, unmount, and the promises that settle after it, on
\* platforms with and without the wake lock capability
InitLifecycle ==
    InitWith([Caps(1, 0, 0) EXCEPT !.wakes = MaxWakeRequests,
                                   !.wakeCapability = BOOLEAN,
                                   !.visibility = BOOLEAN])

NextLifecycle ==
    \/ Mount
    \/ GetBatteryResolve
    \/ \E b \in Readings(cap) : DeviceChange(b)
    \/ \E req \in inflight, resp \in Responses : FetchComplete(req, resp)
    \/ \E p \in pendingWake, granted \in BOOLEAN : WakeLockResolve(p, granted)
    \/ VisibilityHidden
    \/ VisibilityVisible
    \/ Unmount
    \/ GetBatteryResolveTornDown
    \/ \E req \in inflight : FetchCompleteTornDown(req)

SpecLifecycle == InitLifecycle /\ [][NextLifecycle]_vars

\* the telemetry mirror with Math.random() drawn from DrawSamples at every
\* update, on a device that stays at the reading 1.0
InitSimulated ==
    InitWith([Caps(1, 0, 0) EXCEPT !.raws = {200}, !.draws = DrawSamples])

SpecSimulated == InitSimulated /\ [][NextLevel]_vars

\* the fetch orchestration under the assumption that every call of the
\* service eventually returns or fails
InitLive == InitWith(Caps(1, 0, 1))

SpecLive ==
    /\ InitLive
    /\ [][NextFetch]_vars
    /\ WF_vars(\E req \in inflight, resp \in Responses : FetchComplete(req, resp))

\* the sessions in which, during the window of HistTicks appends, the stats
\* change through the readings taken when getBattery() resolves and no
\* connectivity event, click or service response is delivered: none of these
\* handlers reads or writes the timer, the clock or the history buffer
NextHistory ==
    \/ Mount
    \/ GetBatteryResolve
    \/ TimeAdvance
    \/ HistoryTick

SpecHistory == InitHistory /\ [][NextHistory]_vars

\* ------------------------------------------------------------------------
\* Vocabulary of the properties
\* ------------------------------------------------------------------------
\* this step delivers a telemetry update whose reading rounds to level l
TelemetryUpdateTo(l) ==
    \/ GetBatteryResolve /\ l = RoundLevel(battery.level)
    \/ \E b \in Readings(cap) :
          DeviceChange(b) /\ listenerSets > 0 /\ l = RoundLevel(b.level)

\* this step starts a call of the insight service
FetchStarts == fetchesStarted' # fetchesStarted

\* the requests this step starts
NewRequests == inflight' \ inflight

\* the levels a reading can round to
Levels == {RoundLevel(r) : r \in cap.raws}

\* the responses the insight client turns into null
FailureResponses == {"network_error", "service_error", "empty", "unparsable"}

\* ------------------------------------------------------------------------
\* C1
\* ------------------------------------------------------------------------
\* C1 as stated: a telemetry update to level L1 with last-requested level L0
\* starts a fetch iff no fetch was ever requested or |L1 - L0| >= 5.
C1_AsStated ==
    [][\A l \in Levels :
          TelemetryUpdateTo(l) =>
             (FetchStarts <=>
                 (lastFetchedLevel = << >>
                    \/ Abs(l - lastFetchedLevel[1]) >= 5))]_vars

\* C1 amended: a telemetry update to level L1 with last-requested level L0
\* starts a fetch iff the connectivity flag is true and (no fetch was ever
\* requested or |L1 - L0| >= 5); it then starts exactly one.
C1_DebounceRule ==
    [][\A l \in Levels :
          TelemetryUpdateTo(l) =>
             /\ FetchStarts <=>
                   (isOnline /\ (lastFetchedLevel = << >>
                                   \/ Abs(l - lastFetchedLevel[1]) >= 5))
             /\ FetchStarts => fetchesStarted' = fetchesStarted + 1]_vars

\* an update to 95 started a fetch (100 -> 95) and a later update to 96,
\* one point away, started none
C1_Witness ==
    /\ isOnline
    /\ stats.level = 96
    /\ lastFetchedLevel = <<95>>
    /\ \E req \in inflight :
          /\ req.trigger = "auto"
          /\ req.stats.level = 95
          /\ req.id = fetchesStarted

\* ------------------------------------------------------------------------
\* C2
\* ------------------------------------------------------------------------
\* C2: no fetch is started while the connectivity flag is false: every step
\* that starts a fetch, automatic or manual, is taken by a render whose
\* connectivity flag is true, and a step that begins and ends with the flag
\* false starts none.
C2_NoFetchOffline ==
    [][(FetchStarts \/ NewRequests # {}) => isOnline']_vars

\* offline, the level moved 5 points away from the last-requested level and
\* no request was started for it
C2_Witness ==
    /\ ~isOnline
    /\ lastFetchedLevel = <<100>>
    /\ stats.level = 95
    /\ fetchesStarted = 1
    /\ nUpdates > 0

\* ------------------------------------------------------------------------
\* C3
\* ------------------------------------------------------------------------
\* C3 as stated: a Deep Analyze click while some fetch is in flight starts no
\* additional fetch.
C3_AsStated ==
    [][(nClicks' = nClicks + 1 /\ inflight # {}) => ~FetchStarts]_vars

\* ------------------------------------------------------------------------
\* C4
\* ------------------------------------------------------------------------
\* C4: the completion of a fetch that failed (network error, service error,
\* empty or unparsable response) leaves the displayed insight the object it
\* was before.
C4_FailureKeepsInsight ==
    [][\A req \in inflight, resp \in FailureResponses :
          FetchComplete(req, resp) => insight' = insight]_vars

\* an insight is displayed, produced by a request older than the last one,
\* and every request has completed: a later completion did not replace it
C4_Witness ==
    /\ insight # << >>
    /\ insight[1].req < fetchesStarted
    /\ inflight = {}
    /\ ~loadingInsight

\* ------------------------------------------------------------------------
\* C5
\* ------------------------------------------------------------------------
\* C5: a step in which the debounce starts a fetch at level L sets the
\* last-requested level to L in that same step, while the request is still in
\* flight; and while that request is in flight, a telemetry update to a level
\* within 5 points of L starts no fetch.
C5_RecordedAtTrigger ==
    /\ [][\A req \in NewRequests :
             req.trigger = "auto" =>
                /\ req.stats.level = stats'.level
                /\ lastFetchedLevel' = <<req.stats.level>>
                /\ req \in inflight']_vars
    /\ [][\A l \in Levels :
             (/\ TelemetryUpdateTo(l)
              /\ \E req \in inflight :
                    /\ req.trigger = "auto"
                    /\ lastFetchedLevel = <<req.stats.level>>
                    /\ Abs(l - req.stats.level) < 5)
             => inflight' = inflight]_vars

\* the request of the last trigger is in flight, the level has since moved
\* within 5 points of it and nothing was started after it
C5_Witness ==
    /\ isOnline
    /\ \E req \in inflight :
          /\ req.trigger = "auto"
          /\ req.id = fetchesStarted
          /\ lastFetchedLevel = <<req.stats.level>>
          /\ stats.level # req.stats.level
          /\ Abs(stats.level - req.stats.level) < 5

\* ------------------------------------------------------------------------
\* C6
\* ------------------------------------------------------------------------
\* C6: the history buffer never holds more than 20 samples.
C6_HistoryBounded == Len(usageHistory) <= 20

\* more than 20 samples were appended, across a change of level, and the
\* buffer is full
C6_Witness ==
    /\ Len(allSamples) > 20
    /\ Len(usageHistory) = 20
    /\ \E i, j \in 1..Len(usageHistory) :
          usageHistory[i].level # usageHistory[j].level

\* ------------------------------------------------------------------------
\* C7
\* ------------------------------------------------------------------------
\* C7: after n appends the buffer is the last min(n, 20) appended samples, in
\* append order.
C7_SlidingWindow ==
    LET n == Len(allSamples)
        k == IF n < 20 THEN n ELSE 20
    IN  usageHistory = SubSeq(allSamples, n - k + 1, n)

\* after 25 appends the buffer holds appends 6..25, which are not all alike
C7_Witness ==
    /\ Len(allSamples) = 25
    /\ usageHistory = SubSeq(allSamples, 6, 25)
    /\ usageHistory[1] # usageHistory[20]
    /\ allSamples[5] # allSamples[6]

\* ------------------------------------------------------------------------
\* C8
\* ------------------------------------------------------------------------
\* C8 as stated: while a fetch has been started and has not completed, the
\* loading flag is true.
C8_AsStated == inflight # {} => loadingInsight

\* ------------------------------------------------------------------------
\* C9
\* ------------------------------------------------------------------------
\* C9 as stated: every elapsed 5-second interval appends one sample, whatever
\* telemetry arrives: once 5 s have passed beyond the intervals already
\* sampled, the pending append is due at that very moment.
C9_AsStated ==
    (session = "active" /\ nowMs >= 5000 * (Len(allSamples) + 1))
       => timerAge = 5000

\* ------------------------------------------------------------------------
\* C10
\* ------------------------------------------------------------------------
\* C10: a request leaves the set of requests in flight only when its response
\* arrives, and a valid response to a request built at level L becomes the
\* displayed insight whatever the level is by then.
C10_NeverCancelled ==
    /\ [][\A req \in inflight :
             req \notin inflight' =>
                \E resp \in Responses : FetchComplete(req, resp)]_vars
    /\ [][\A req \in inflight :
             FetchComplete(req, "valid") =>
                /\ insight' # << >>
                /\ insight'[1].req = req.id
                /\ insight'[1].stats = req.stats]_vars

\* the displayed insight was computed for a level that is no longer current
C10_Witness ==
    /\ insight # << >>
    /\ insight[1].stats.level # stats.level
    /\ insight[1].wellFormed

\* ------------------------------------------------------------------------
\* C11
\* ------------------------------------------------------------------------
\* C11 as stated: a response that does not match the schema is a failure like
\* an empty or unparsable one, so the displayed insight, when there is one,
\* always has the shape the panel renders (insight.optimizationTips.map).
C11_AsStated == insight # << >> => insight[1].wellFormed

\* ------------------------------------------------------------------------
\* C12
\* ------------------------------------------------------------------------
\* C12 as stated: at most one set of battery change listeners is registered
\* in every state, and none once the session is torn down.
C12_AsStated ==
    /\ listenerSets <= 1
    /\ session = "torndown" => listenerSets = 0

\* ------------------------------------------------------------------------
\* C13
\* ------------------------------------------------------------------------
\* C13 as stated: once the session is torn down the platform holds no screen
\* wake lock granted to one of its requests.
C13_AsStated == session = "torndown" => heldLocks = {}

\* ------------------------------------------------------------------------
\* C14
\* ------------------------------------------------------------------------
\* C14: for readings from 0.0 to 1.0 the level of the stats snapshot is an
\* integer from 0 to 100 in every state, the initial one included.
C14_LevelInRange == stats.level \in 0..100

\* the reading 0.995 was mirrored by a change event and shows as 100
C14_Witness ==
    /\ nUpdates = 1
    /\ listenerSets > 0
    /\ battery.level = 199
    /\ stats.level = 100

\* ------------------------------------------------------------------------
\* C15
\* ------------------------------------------------------------------------
\* C15: the step in which a request completes, failed or successful, starts
\* no fetch; every step that starts one is a run of the debounce effect
\* (first render, telemetry update, connectivity regained) or a click.
C15_NoRetry ==
    /\ [][(\E req \in inflight : req \notin inflight') =>
             (~FetchStarts /\ NewRequests = {})]_vars
    /\ [][FetchStarts =>
             \/ nClicks' = nClicks + 1
             \/ session # session'
             \/ isOnline # isOnline'
             \/ stats.level # stats'.level]_vars

\* two requests were made, both have completed without an insight, and
\* nothing is in flight
C15_Witness ==
    /\ session = "active"
    /\ fetchesStarted = 2
    /\ inflight = {}
    /\ insight = << >>

C17_LoadingClears ==
    /\ [][(\E req \in inflight : req \notin inflight') => ~loadingInsight']_vars
    /\ loadingInsight ~> ~loadingInsight
    /\ [](inflight = {} => ~loadingInsight)

\* requests were made, all have completed and the flag is down
C17_Witness ==
    /\ fetchesStarted > 0
    /\ inflight = {}
    /\ ~loadingInsight
    /\ insight # << >>
    /\ insight[1].req = fetchesStarted

\* ------------------------------------------------------------------------
\* C18
\* ------------------------------------------------------------------------
\* C18: on a platform without the battery capability the stats snapshot is
\* the initial default in every state, no getBattery() call is pending and no
\* battery listener is registered.
C18_StatsStayDefault ==
    ~hasBattery =>
        /\ stats = [level |-> INITIAL_LEVEL, charging |-> FALSE,
                    temperature |-> INITIAL_TEMPERATURE,
                    voltage |-> INITIAL_VOLTAGE]
        /\ pendingGetBattery = 0
        /\ listenerSets = 0

\* without the capability, history samples were appended and the session went
\* offline after its first request
C18_Witness ==
    /\ ~hasBattery
    /\ session = "active"
    /\ Len(allSamples) >= 2
    /\ lastFetchedLevel # << >>
    /\ ~isOnline
    /\ stats.level = INITIAL_LEVEL

\* ------------------------------------------------------------------------
\* C19
\* ------------------------------------------------------------------------
\* C19 as stated: once a telemetry update has been delivered, the stored
\* temperature is at least 30 and below 38 and the stored voltage is at least
\* 3.6 and below 4.2.
C19_AsStated ==
    listenerSets > 0 =>
        /\ 300 <= stats.temperature /\ stats.temperature < 380
        /\ 360 <= stats.voltage /\ stats.voltage < 420

\* C19: once a telemetry update has been delivered, the stored temperature is
\* from 30 to 38 and the stored voltage from 3.6 to 4.2, both ends included:
\* toFixed rounds the draws next to 1 up to the excluded end.
C19_RoundedRange ==
    listenerSets > 0 =>
        /\ 300 <= stats.temperature /\ stats.temperature <= 380
        /\ 360 <= stats.voltage /\ stats.voltage <= 420

\* an update stored both upper ends
C19_Witness ==
    /\ listenerSets > 0
    /\ stats.temperature = 380
    /\ stats.voltage = 420

\* ------------------------------------------------------------------------
\* C20
\* ------------------------------------------------------------------------
\* C20: a click leaves the last-requested level as it was, also when the
\* level of the manual request differs from it.
C20_ManualKeepsLastLevel ==
    [][nClicks' = nClicks + 1 =>
          /\ lastFetchedLevel' = lastFetchedLevel
          /\ \A req \in NewRequests : req.trigger = "manual"]_vars

\* a manual request was made at a level other than the last-requested one
C20_Witness ==
    \E req \in inflight :
       /\ req.trigger = "manual"
       /\ lastFetchedLevel # << >>
       /\ lastFetchedLevel[1] # req.stats.level

\* ------------------------------------------------------------------------
\* C21
\* ------------------------------------------------------------------------
\* C21: a step that ends with the connectivity flag false leaves the
\* last-requested level as it was; the last-requested level is null exactly
\* when no fetch was ever started; and the step that sets the flag to true
\* changes no stats and starts a fetch iff the last-requested level is null
\* or at least 5 points from the current level, in which case it starts one
\* automatic request for the current stats and records the current level.
C21_OfflineNotConsumed ==
    /\ [][~isOnline' => lastFetchedLevel' = lastFetchedLevel]_vars
    /\ [](lastFetchedLevel = << >> <=> fetchesStarted = 0)
    /\ [][HandleOnline =>
             /\ stats' = stats
             /\ nUpdates' = nUpdates
             /\ FetchStarts <=>
                   (lastFetchedLevel = << >>
                      \/ Abs(stats.level - lastFetchedLevel[1]) >= 5)
             /\ FetchStarts =>
                   /\ fetchesStarted' = fetchesStarted + 1
                   /\ lastFetchedLevel' = <<stats.level>>
                   /\ NewRequests =
                         {[id |-> fetchesStarted', stats |-> stats,
                           trigger |-> "auto"]}
             /\ ~FetchStarts =>
                   /\ NewRequests = {}
                   /\ lastFetchedLevel' = lastFetchedLevel]_vars

\* the first request of the session was started at level 95: the session was
\* offline from the mount through the update to 95, and the request started
\* when connectivity returned
C21_Witness ==
    /\ isOnline
    /\ fetchesStarted = 1
    /\ lastFetchedLevel = <<95>>
    /\ stats.level = 95
    /\ \E req \in inflight :
          /\ req.id = 1
          /\ req.trigger = "auto"
          /\ req.stats.level = 95

\* ------------------------------------------------------------------------
\* C22
\* ------------------------------------------------------------------------
\* C22 as stated: when a response arrives while several requests are in
\* flight, a successful one (an object of the fixed schema) becomes the
\* displayed insight whichever request it answers, and any other leaves the
\* displayed insight as it was, so that the displayed insight is the result of
\* the most recently completed successful fetch.
C22_AsStated ==
    [][\A req \in inflight, resp \in Responses :
          (Cardinality(inflight) >= 2 /\ FetchComplete(req, resp)) =>
             IF resp = "valid"
             THEN insight' = GetBatteryInsights(req, "valid")
             ELSE insight' = insight]_vars

TypeOK ==
    /\ session \in {"init", "active", "torndown"}
    /\ stats.level \in 0..100
    /\ Len(insight) <= 1
    /\ Len(lastFetchedLevel) <= 1
    /\ loadingInsight \in BOOLEAN
    /\ isOnline \in BOOLEAN
    /\ pendingGetBattery >= 0
    /\ timerAge \in 0..HISTORY_INTERVAL_MS
====
